---- MODULE Spec2Model ----
(***************************************************************************)
(* Model of leptonai/cli/autotune.py: the option validators, the two       *)
(* custom click parameter types, the resource-shape matcher, the           *)
(* cross-field gate and the five autotune commands.                        *)
(*                                                                         *)
(* Python strings are sequences of one-character strings.  Python values   *)
(* of different types are tagged records, [tag |-> "none"] being None.     *)
(***************************************************************************)
EXTENDS Integers, Sequences, FiniteSets, TLC

VARIABLES
    raw,          \* the raw value handed to a conversion under test
    out,          \* what the conversion returned or raised
    conv,         \* which conversion ran
    ctx,          \* click context: the _resource_validation_params attribute
    checked,      \* whether the last gate call evaluated the completeness check
    result,       \* what the last gate call returned or raised
    regs,         \* number of gate calls made on this context
    distinctAt,   \* number of distinct names in the accumulator before the last call
    cmd,          \* the command being invoked
    opts,         \* the raw option values of the invocation
    pending,      \* options whose callback or type conversion has not run yet
    pc,           \* position of the invocation
    err,          \* the validation error that ended the invocation, if any
    first,        \* which of the two linked options was validated first
    engineCalls,  \* number of calls made into autotuner_runner
    engineRaised, \* whether the engine call raised
    engineArg,    \* the args object the engine was called with
    printed,      \* console.print was called by the except clause
    logged,       \* logger.error was called by the except clause
    exitCode,     \* process exit status
    persisted,    \* args.json written by the engine's generate
    file,         \* content of <config_dir>/<model>/args.json
    loaded,       \* the record as AutoTuneArgs.load_from_file returned it
    args,         \* the args object the command works on
    kwargs        \* the converted option values handed to the command function

vars == <<raw, out, conv, ctx, checked, result, regs, distinctAt, cmd, opts,
          pending, pc, err, first, engineCalls, engineRaised, engineArg,
          printed, logged, exitCode, persisted, file, loaded, args, kwargs>>

convVars == <<raw, out, conv>>
gateVars == <<ctx, checked, result, regs, distinctAt>>
cliVars  == <<cmd, opts, pending, pc, err, first, engineCalls, engineRaised,
              engineArg, printed, logged, exitCode, persisted, file, loaded, args,
              kwargs>>

----------------------------------------------------------------------------
(* Bounds of the explored inputs *)

MaxSegs == 3        \* comma-separated segments in a list string
MaxListLen == 2     \* entries of an already-structured list
MaxParts == 4       \* pieces a resource descriptor is assembled from
MaxRegs == 4        \* gate registrations made on one context

----------------------------------------------------------------------------
(* Python values *)

NoneVal == [tag |-> "none"]
Str(s) == [tag |-> "str", s |-> s]
IntV(n) == [tag |-> "int", n |-> n]
FloatV(n) == [tag |-> "float", n |-> n]
ListV(l) == [tag |-> "list", l |-> l]
Fail(kind) == [tag |-> "fail", kind |-> kind]
NotRun == [tag |-> "notrun"]

\* Python truthiness: None, "", 0 and 0.0 are falsy
Truthy(v) ==
    CASE v.tag = "none" -> FALSE
      [] v.tag = "str" -> v.s # <<>>
      [] v.tag = "int" -> v.n # 0
      [] v.tag = "float" -> v.n # 0
      [] v.tag = "list" -> v.l # <<>>
      [] OTHER -> TRUE

----------------------------------------------------------------------------
(* str methods *)

Whitespace == {" "}
DigitChars == {"0", "1", "2", "3", "4", "5", "6", "7", "8", "9"}
LowerLetters == {"a", "b", "c", "d", "e", "f", "g", "h", "i", "j", "k", "l", "m",
                 "n", "o", "p", "q", "r", "s", "t", "u", "v", "w", "x", "y", "z"}
UpperLetters == {"A", "B", "C", "D", "E", "F", "G", "H", "I", "J", "K", "L", "M",
                 "N", "O", "P", "Q", "R", "S", "T", "U", "V", "W", "X", "Y", "Z"}
UpperSeq == <<"A", "B", "C", "D", "E", "F", "G", "H", "I", "J", "K", "L", "M",
              "N", "O", "P", "Q", "R", "S", "T", "U", "V", "W", "X", "Y", "Z">>
LowerSeq == <<"a", "b", "c", "d", "e", "f", "g", "h", "i", "j", "k", "l", "m",
              "n", "o", "p", "q", "r", "s", "t", "u", "v", "w", "x", "y", "z">>

LowerChar(c) ==
    IF c \in UpperLetters
    THEN LowerSeq[CHOOSE i \in 1..26 : UpperSeq[i] = c]
    ELSE c

\* str.lower()
Lower(s) == [i \in 1..Len(s) |-> LowerChar(s[i])]

RECURSIVE LStrip(_)
LStrip(s) == IF s # <<>> /\ Head(s) \in Whitespace THEN LStrip(Tail(s)) ELSE s

RECURSIVE RStrip(_)
RStrip(s) ==
    IF s # <<>> /\ s[Len(s)] \in Whitespace
    THEN RStrip(SubSeq(s, 1, Len(s) - 1))
    ELSE s

\* str.strip()
Strip(s) == RStrip(LStrip(s))

\* ',' in value
HasComma(s) == \E i \in 1..Len(s) : s[i] = ","

\* str.split(','): the segments between commas, empty ones included
RECURSIVE SplitFrom(_, _, _)
SplitFrom(s, i, cur) ==
    IF i > Len(s) THEN <<cur>>
    ELSE IF s[i] = "," THEN <<cur>> \o SplitFrom(s, i + 1, <<>>)
    ELSE SplitFrom(s, i + 1, Append(cur, s[i]))

Split(s) == SplitFrom(s, 1, <<>>)

DigitVal(c) == CHOOSE d \in 0..9 : <<"0", "1", "2", "3", "4", "5", "6", "7", "8", "9">>[d + 1] = c

RECURSIVE DigitsVal(_, _)
DigitsVal(s, acc) ==
    IF s = <<>> THEN acc ELSE DigitsVal(Tail(s), 10 * acc + DigitVal(Head(s)))

\* int(x): surrounding whitespace, an optional sign, one or more digits;
\* ok = FALSE is ValueError
ParseInt(x) ==
    LET t == Strip(x)
        signed == t # <<>> /\ Head(t) \in {"+", "-"}
        body == IF signed THEN Tail(t) ELSE t
    IN  IF body # <<>> /\ \A i \in 1..Len(body) : body[i] \in DigitChars
        THEN [ok |-> TRUE,
              n |-> IF signed /\ Head(t) = "-" THEN 0 - DigitsVal(body, 0)
                    ELSE DigitsVal(body, 0)]
        ELSE [ok |-> FALSE, n |-> 0]

AutoWord == <<"a", "u", "t", "o">>

----------------------------------------------------------------------------
(* The custom click types *)

\* ListLoop accepting 0: the positivity test written < 0
RECURSIVE ListLoop_AllowZero(_, _, _)
ListLoop_AllowZero(segs, acc, withAuto) ==
    IF segs = <<>> THEN ListV(acc)
    ELSE LET x == Strip(Head(segs))
             p == ParseInt(x)
         IN  IF x = <<>> THEN ListLoop_AllowZero(Tail(segs), acc, withAuto)
             ELSE IF withAuto /\ Lower(x) = AutoWord THEN Fail("MixedSentinelError")
             ELSE IF ~p.ok THEN Fail("ParseError")
             ELSE IF p.n < 0 THEN Fail("RangeError")
             ELSE ListLoop_AllowZero(Tail(segs), Append(acc, p.n), withAuto)

\* the for loop over value.split(',') of both types; withAuto selects the
\* extra 'auto' test of IntListOrAutoType
RECURSIVE ListLoop(_, _, _)
ListLoop(segs, acc, withAuto) ==
    IF segs = <<>> THEN ListV(acc)
    ELSE LET x == Strip(Head(segs))
             p == ParseInt(x)
         IN  IF x = <<>> THEN ListLoop(Tail(segs), acc, withAuto)
             ELSE IF withAuto /\ Lower(x) = AutoWord THEN Fail("MixedSentinelError")
             ELSE IF ~p.ok THEN Fail("ParseError")
             ELSE IF p.n <= 0 THEN Fail("RangeError")
             ELSE ListLoop(Tail(segs), Append(acc, p.n), withAuto)

\* the else branch: a string without a comma
SingleValue(value) ==
    LET p == ParseInt(value)
    IN  IF ~p.ok THEN Fail("ParseError")
        ELSE IF p.n <= 0 THEN Fail("RangeError")
        ELSE ListV(<<p.n>>)

\* the isinstance(value, int) branch
BareInt(n) == IF n <= 0 THEN Fail("RangeError") ELSE ListV(<<n>>)

\* IntListType.convert
IntListConvert(value) ==
    CASE value.tag = "none" -> NoneVal
      [] value.tag = "list" -> value
      [] value.tag = "str" ->
            LET v == Strip(value.s)
            IN  IF v = <<>> THEN ListV(<<>>)
                ELSE IF HasComma(v) THEN ListLoop(Split(v), <<>>, FALSE)
                ELSE SingleValue(v)
      [] value.tag = "int" -> BareInt(value.n)
      [] OTHER -> Fail("TypeError")

\* IntListOrAutoType.convert comparing with 'auto' without lower()
IntListOrAutoConvert_CaseSensitive(value) ==
    CASE value.tag = "none" -> NoneVal
      [] value.tag = "list" -> value
      [] value.tag = "str" ->
            LET v == Strip(value.s)
            IN  IF v = <<>> THEN ListV(<<>>)
                ELSE IF v = AutoWord THEN [tag |-> "auto"]
                ELSE IF HasComma(v) THEN ListLoop(Split(v), <<>>, TRUE)
                ELSE SingleValue(v)
      [] value.tag = "int" -> BareInt(value.n)
      [] OTHER -> Fail("TypeError")

\* IntListOrAutoType.convert
IntListOrAutoConvert(value) ==
    CASE value.tag = "none" -> NoneVal
      [] value.tag = "list" -> value
      [] value.tag = "str" ->
            LET v == Strip(value.s)
            IN  IF v = <<>> THEN ListV(<<>>)
                ELSE IF Lower(v) = AutoWord THEN [tag |-> "auto"]
                ELSE IF HasComma(v) THEN ListLoop(Split(v), <<>>, TRUE)
                ELSE SingleValue(v)
      [] value.tag = "int" -> BareInt(value.n)
      [] OTHER -> Fail("TypeError")

----------------------------------------------------------------------------
(* Resource shape matcher *)

TypeChars == LowerLetters \cup UpperLetters \cup DigitChars \cup {"-"}   \* [a-zA-Z0-9\-]
WordChars == LowerLetters \cup UpperLetters \cup DigitChars \cup {"_"}   \* \w
GpuDot == <<"g", "p", "u", ".">>

\* how many consecutive characters of s, from position i on, lie in class
RECURSIVE Span(_, _, _)
Span(s, i, class) ==
    IF i <= Len(s) /\ s[i] \in class THEN 1 + Span(s, i + 1, class) ELSE 0

\* s carries the literal gpu. at its start, letter case ignored
HasGpuDot(s) == Len(s) >= 4 /\ Lower(SubSeq(s, 1, 4)) = GpuDot

\* position reached by (\d+)x([a-zA-Z0-9\-]+) started at i, 0 when it does not match
CountXType(s, i) ==
    LET d == Span(s, i, DigitChars)
        t == Span(s, i + d + 1, TypeChars)
    IN  IF d >= 1 /\ i + d <= Len(s) /\ Lower(<<s[i + d]>>) = <<"x">> /\ t >= 1
        THEN i + d + 1 + t
        ELSE 0

\* position reached by ([a-zA-Z0-9\-]+)\.(\w+) started at i, 0 when it does not match
TypeDotSize(s, i) ==
    LET t == Span(s, i, TypeChars)
        w == Span(s, i + t + 1, WordChars)
    IN  IF t >= 1 /\ i + t <= Len(s) /\ s[i + t] = "." /\ w >= 1
        THEN i + t + 1 + w
        ELSE 0

\* GPU_RESOURCE_PATTERNS[k] under re.match(pattern, value, re.IGNORECASE):
\* the position after the matched prefix, 0 when the pattern does not match
\* at the start of s.  re.match anchors the start only.
PatternEnd(k, s) ==
    CASE k = 1 -> IF HasGpuDot(s) THEN CountXType(s, 5) ELSE 0
      [] k = 2 -> IF HasGpuDot(s) THEN TypeDotSize(s, 5) ELSE 0
      [] k = 3 -> IF HasGpuDot(s) /\ Span(s, 5, TypeChars) >= 1
                  THEN 5 + Span(s, 5, TypeChars) ELSE 0
      [] k = 4 -> CountXType(s, 1)
      [] k = 5 -> LET d == Span(s, 1, DigitChars)
                  IN  IF d >= 1
                      THEN (IF d + 1 <= Len(s) /\ Lower(<<s[d + 1]>>) = <<"x">>
                            THEN d + 2 ELSE d + 1)
                      ELSE 0

\* if re.match(pattern, value, re.IGNORECASE)
ReMatch(k, s) == PatternEnd(k, s) # 0

\* the pattern at which the for loop returns, 0 when it runs to its end
FirstMatch(s) ==
    IF \E k \in 1..5 : ReMatch(k, s)
    THEN CHOOSE k \in 1..5 : ReMatch(k, s) /\ \A j \in 1..(k - 1) : ~ReMatch(j, s)
    ELSE 0

\* validate_resource_shape
ValidateResourceShape(value) ==
    IF value.tag = "none" THEN value
    ELSE IF FirstMatch(value.s) # 0 THEN value
    ELSE Fail("FormatError")

----------------------------------------------------------------------------
(* Scalar option callbacks *)

\* validate_positive_int rejecting negative values only
ValidatePositiveInt_AllowZero(value) ==
    IF value.tag = "none" THEN value
    ELSE IF value.n < 0 THEN Fail("BadParameter")
    ELSE value

\* validate_positive_int
ValidatePositiveInt(value) ==
    IF value.tag = "none" THEN value
    ELSE IF value.n <= 0 THEN Fail("BadParameter")
    ELSE value

\* validate_positive_float
ValidatePositiveFloat(value) ==
    IF value.tag = "none" THEN value
    ELSE IF value.n <= 0 THEN Fail("BadParameter")
    ELSE value

\* validate_model_callback
ValidateModelCallback(value) ==
    IF value.tag = "none" THEN value
    ELSE IF value.tag # "str" \/ Strip(value.s) = <<>> THEN Fail("BadParameter")
    ELSE value

----------------------------------------------------------------------------
(* Cross-field gate *)

LinkedNames == {"resource_shape", "memory_per_gpu"}
NoParams == [n \in {} |-> NoneVal]
FreshCtx == [has |-> FALSE, params |-> NoParams]

\* dict.get(name): None when the key is absent
DictGet(d, n) == IF n \in DOMAIN d THEN d[n] ELSE NoneVal

\* the check firing on every registration, the first included
GateFires_Any(d) == Cardinality(DOMAIN d) >= 1

\* len(ctx._resource_validation_params) == 2
GateFires(d) == Cardinality(DOMAIN d) = 2

\* the check requiring both options: or in place of and
BothMissing_Either(d) ==
    ~Truthy(DictGet(d, "resource_shape")) \/ ~Truthy(DictGet(d, "memory_per_gpu"))

\* not resource_shape and not memory_per_gpu
BothMissing(d) ==
    ~Truthy(DictGet(d, "resource_shape")) /\ ~Truthy(DictGet(d, "memory_per_gpu"))

\* validate_resource_shape_or_memory(ctx, param, value): the context after the
\* call, whether the completeness check was evaluated, and the value returned
\* or the error raised
ValidateResourceShapeOrMemory(c, name, value) ==
    LET d0 == IF c.has THEN c.params ELSE NoParams
        d1 == [n \in DOMAIN d0 \cup {name} |-> IF n = name THEN value ELSE d0[n]]
    IN  [ctx |-> [has |-> TRUE, params |-> d1],
         checked |-> GateFires(d1),
         result |-> IF GateFires(d1) /\ BothMissing(d1)
                    THEN Fail("RequirementError")
                    ELSE IF name = "resource_shape" /\ Truthy(value)
                    THEN ValidateResourceShape(value)
                    ELSE value]

----------------------------------------------------------------------------
(* Inputs of the conversions *)

RECURSIVE Join(_)
Join(segs) ==
    IF Len(segs) = 1 THEN segs[1] ELSE segs[1] \o <<",">> \o Join(Tail(segs))

RECURSIVE Concat(_)
Concat(parts) == IF parts = <<>> THEN <<>> ELSE Head(parts) \o Concat(Tail(parts))

SeqsUpTo(S, n) == UNION {[1..k -> S] : k \in 1..n}

\* segments the list strings are joined from
SegChoices == {<<>>, <<"2">>, <<"4">>, <<"8">>, <<" ", "8", " ">>, <<"-", "1">>, <<"0">>, <<"a">>, <<"a", "u", "t", "o">>, <<"A", "u", "T", "o">>}

ListStrings == {Join(t) : t \in SeqsUpTo(SegChoices, MaxSegs)}

ListEntries == {-1, 0, 1, 2}

ParseInputs ==
    {NoneVal, FloatV(2)}
    \cup {IntV(n) : n \in ListEntries}
    \cup {ListV(<<>>)} \cup {ListV(l) : l \in SeqsUpTo(ListEntries, MaxListLen)}
    \cup {Str(s) : s \in ListStrings}

\* pieces the resource descriptors are assembled from
PartChoices == {<<"g", "p", "u", ".">>, <<"G", "P", "U", ".">>, <<"8">>, <<"x">>, <<"a">>, <<"-">>, <<".">>, <<"?">>, <<"_">>}

ExampleShapes == {<<"g", "p", "u", ".", "8", "x", "h", "2", "0", "0">>, <<"g", "p", "u", ".", "a", "1", "0", ".", "6", "x", "l", "a", "r", "g", "e">>, <<"g", "p", "u", ".", "a", "1", "0", "0", "-", "4", "0", "g", "b">>, <<"8", "x", "h", "2", "0", "0">>,
                  <<"8">>, <<"8", "x">>, <<"?", "?", "b", "a", "d", "?", "?">>}

ShapeInputs ==
    {NoneVal}
    \cup {Str(Concat(t)) : t \in SeqsUpTo(PartChoices, MaxParts)}
    \cup {Str(s) : s \in ExampleShapes}

----------------------------------------------------------------------------
(* Initial values of the variables a specification does not use *)

IdleConv == raw = NoneVal /\ out = NotRun /\ conv = "none"

IdleGate ==
    /\ ctx = FreshCtx
    /\ checked = FALSE
    /\ result = NotRun
    /\ regs = 0
    /\ distinctAt = 0

IdleCli ==
    /\ cmd = "none"
    /\ opts = NoneVal
    /\ kwargs = NoParams
    /\ pending = {}
    /\ pc = "idle"
    /\ err = "none"
    /\ first = "none"
    /\ engineCalls = 0
    /\ engineRaised = FALSE
    /\ engineArg = NoneVal
    /\ printed = "none"
    /\ logged = FALSE
    /\ exitCode = -1
    /\ persisted = FALSE
    /\ file = NoneVal
    /\ loaded = NoneVal
    /\ args = NoneVal

----------------------------------------------------------------------------
(* The click types applied to one raw value *)

InitParse == raw \in ParseInputs /\ out = NotRun /\ conv = "none" /\ IdleGate /\ IdleCli

\* INT_LIST.convert(value, param, ctx)
ConvertIntList ==
    /\ conv = "none"
    /\ conv' = "int_list"
    /\ out' = IntListConvert(raw)
    /\ UNCHANGED <<raw, gateVars, cliVars>>

\* INT_LIST_OR_AUTO.convert(value, param, ctx)
ConvertIntListOrAuto ==
    /\ conv = "none"
    /\ conv' = "int_list_or_auto"
    /\ out' = IntListOrAutoConvert(raw)
    /\ UNCHANGED <<raw, gateVars, cliVars>>

NextParse == ConvertIntList \/ ConvertIntListOrAuto

SpecParse == InitParse /\ [][NextParse]_vars

----------------------------------------------------------------------------
(* The resource shape matcher applied to one descriptor *)

InitShape == raw \in ShapeInputs /\ out = NotRun /\ conv = "none" /\ IdleGate /\ IdleCli

\* validate_resource_shape(ctx, param, value)
MatchShape ==
    /\ conv = "none"
    /\ conv' = "resource_shape"
    /\ out' = ValidateResourceShape(raw)
    /\ UNCHANGED <<raw, gateVars, cliVars>>

NextShape == MatchShape

SpecShape == InitShape /\ [][NextShape]_vars

----------------------------------------------------------------------------
(* The gate callback called any number of times on one context *)

ShapeValues == {NoneVal, Str(<<>>), Str(<<"g", "p", "u", ".", "8", "x", "h", "2", "0", "0">>), Str(<<"?", "?", "b", "a", "d", "?", "?">>)}
MemoryValues == {NoneVal, FloatV(0), FloatV(80)}
LinkedValues(name) == IF name = "resource_shape" THEN ShapeValues ELSE MemoryValues

\* the accumulator as the callback finds it
Accumulated(c) == IF c.has THEN c.params ELSE NoParams

InitGate == IdleConv /\ IdleGate /\ IdleCli

\* one call validate_resource_shape_or_memory(ctx, param, value)
Register ==
    /\ regs < MaxRegs
    /\ result.tag # "fail"
    /\ \E name \in LinkedNames : \E value \in LinkedValues(name) :
          LET r == ValidateResourceShapeOrMemory(ctx, name, value)
          IN  /\ ctx' = r.ctx
              /\ checked' = r.checked
              /\ result' = r.result
    /\ regs' = regs + 1
    /\ distinctAt' = Cardinality(DOMAIN Accumulated(ctx))
    /\ UNCHANGED <<convVars, cliVars>>

NextGate == Register

SpecGate == InitGate /\ [][NextGate]_vars

----------------------------------------------------------------------------
(* One invocation of an autotune command *)

BoolV(b) == [tag |-> "bool", b |-> b]

Commands == {"generate", "run", "results", "list_configs", "list_models"}

\* the options of each command that carry a callback or a custom type; one
\* option stands for each validator the command uses
ParamsOf(c) ==
    CASE c = "generate" -> {"model", "nodes", "tensor_parallel_sizes", "micro_batch_sizes",
                            "resource_shape", "memory_per_gpu"}
      [] c = "run" -> {"model"}
      [] c = "results" -> {"model", "top_n", "cost_per_node_hour"}
      [] c = "list_configs" -> {"model"}
      [] c = "list_models" -> {}

ModelValues == {Str(<<"m">>), Str(<<" ">>)}

\* the raw option values of an invocation, after click's built-in str, int
\* and float conversions
OptChoices(c) ==
    CASE c = "generate" ->
            [model : ModelValues,
             nodes : {IntV(2), IntV(0)},
             tensor_parallel_sizes : {Str(<<"1", ",", "2", ",", "4">>), Str(<<"2", ",", "-", "1">>)},
             micro_batch_sizes : {Str(<<"a", "u", "t", "o">>), Str(<<"a", "u", "t", "o", ",", "2">>)},
             resource_shape : ShapeValues,
             memory_per_gpu : MemoryValues]
      [] c = "run" ->
            [model : ModelValues, sequential : {BoolV(TRUE), BoolV(FALSE)},
             run_all : {BoolV(TRUE), BoolV(FALSE)}]
      [] c = "results" ->
            [model : ModelValues, top_n : {IntV(10), IntV(0)},
             cost_per_node_hour : {FloatV(24), FloatV(-1)}]
      [] c = "list_configs" -> [model : ModelValues]
      [] c = "list_models" -> {NoneVal}

\* what <config_dir>/<model>/args.json holds: nothing readable, or a record
Missing == [tag |-> "missing"]
StoredArgs ==
    [tag : {"args"}, model : {<<"m">>}, nodes : {2}, sequential : BOOLEAN,
     metadata : [run_all : BOOLEAN, base_config_matches : {0, 3}]]
Files == {Missing} \cup StoredArgs

Init ==
    /\ IdleConv
    /\ IdleGate
    /\ cmd \in Commands
    /\ opts \in OptChoices(cmd)
    /\ kwargs = NoParams
    /\ pending = ParamsOf(cmd)
    /\ pc = "params"
    /\ err = "none"
    /\ first = "none"
    /\ engineCalls = 0
    /\ engineRaised = FALSE
    /\ engineArg = NoneVal
    /\ printed = "none"
    /\ logged = FALSE
    /\ exitCode = -1
    /\ persisted = FALSE
    /\ file \in (IF cmd \in {"run", "results"} THEN Files ELSE {Missing})
    /\ loaded = NoneVal
    /\ args = NoneVal

\* click after an option's type conversion and callback: a returned value
\* is stored for the command function, a raised BadParameter ends the
\* invocation as a usage error before the command function runs
Processed(name, r) ==
    IF r.tag = "fail"
    THEN /\ pc' = "exit"
         /\ err' = r.kind
         /\ exitCode' = 2
         /\ UNCHANGED <<pending, kwargs>>
    ELSE /\ pending' = pending \ {name}
         /\ kwargs' = [n \in DOMAIN kwargs \cup {name} |-> IF n = name THEN r ELSE kwargs[n]]
         /\ UNCHANGED <<pc, err, exitCode>>

bodyVars == <<engineCalls, engineRaised, engineArg, printed, logged, persisted,
              file, loaded, args>>

\* --model, callback=validate_model_callback
ProcessModel ==
    /\ pc = "params"
    /\ "model" \in pending
    /\ Processed("model", ValidateModelCallback(opts["model"]))
    /\ UNCHANGED <<convVars, gateVars, cmd, opts, first, bodyVars>>

\* --nodes, --top-n: callback=validate_positive_int
ProcessPositiveInt ==
    /\ pc = "params"
    /\ \E name \in {"nodes", "top_n"} \cap pending :
          Processed(name, ValidatePositiveInt(opts[name]))
    /\ UNCHANGED <<convVars, gateVars, cmd, opts, first, bodyVars>>

\* --cost-per-node-hour, callback=validate_positive_float
ProcessPositiveFloat ==
    /\ pc = "params"
    /\ "cost_per_node_hour" \in pending
    /\ Processed("cost_per_node_hour", ValidatePositiveFloat(opts["cost_per_node_hour"]))
    /\ UNCHANGED <<convVars, gateVars, cmd, opts, first, bodyVars>>

\* --tensor-parallel-sizes, type=INT_LIST
ProcessIntList ==
    /\ pc = "params"
    /\ "tensor_parallel_sizes" \in pending
    /\ Processed("tensor_parallel_sizes", IntListConvert(opts["tensor_parallel_sizes"]))
    /\ UNCHANGED <<convVars, gateVars, cmd, opts, first, bodyVars>>

\* --micro-batch-sizes, type=INT_LIST_OR_AUTO
ProcessIntListOrAuto ==
    /\ pc = "params"
    /\ "micro_batch_sizes" \in pending
    /\ Processed("micro_batch_sizes", IntListOrAutoConvert(opts["micro_batch_sizes"]))
    /\ UNCHANGED <<convVars, gateVars, cmd, opts, first, bodyVars>>

\* --resource-shape, --memory-per-gpu: callback=validate_resource_shape_or_memory.
\* click runs the callbacks in the order of the command line, so either
\* linked option may come first.
ProcessLinked ==
    /\ pc = "params"
    /\ \E name \in LinkedNames \cap pending :
          LET r == ValidateResourceShapeOrMemory(ctx, name, opts[name])
          IN  /\ ctx' = r.ctx
              /\ checked' = r.checked
              /\ result' = r.result
              /\ first' = IF first = "none" THEN name ELSE first
              /\ Processed(name, r.result)
    /\ regs' = regs + 1
    /\ distinctAt' = Cardinality(DOMAIN Accumulated(ctx))
    /\ UNCHANGED <<convVars, cmd, opts, bodyVars>>

\* every callback has returned: click calls the command function
BodyStarts(c) == cmd = c /\ pc = "params" /\ pending = {}

\* the record AutoTuneArgs(**kwargs) holds
NewArgs(kw) == [tag |-> "args", kwargs |-> kw]

\* generate(**kwargs)
Generate ==
    /\ BodyStarts("generate")
    /\ args' = NewArgs(kwargs)
    /\ engineArg' = NewArgs(kwargs)
    /\ engineCalls' = engineCalls + 1
    /\ \E raised \in BOOLEAN :
          /\ engineRaised' = raised
          /\ IF raised
             THEN /\ printed' = "error"
                  /\ logged' = TRUE
                  /\ exitCode' = 1
                  /\ pc' = "exit"
                  /\ UNCHANGED persisted
             ELSE /\ persisted' = TRUE
                  /\ exitCode' = 0
                  /\ pc' = "done"
                  /\ UNCHANGED <<printed, logged>>
    /\ UNCHANGED <<convVars, gateVars, cmd, opts, pending, kwargs, err, first, file, loaded>>

\* run: args = AutoTuneArgs.load_from_file(f"{config_dir}/{model}/args.json")
RunLoad ==
    /\ BodyStarts("run")
    /\ IF file = Missing
       THEN /\ printed' = "error"
            /\ exitCode' = 1
            /\ pc' = "exit"
            /\ UNCHANGED <<loaded, args>>
       ELSE /\ loaded' = file
            /\ args' = file
            /\ pc' = "loaded"
            /\ UNCHANGED <<printed, exitCode>>
    /\ UNCHANGED <<convVars, gateVars, cmd, opts, pending, kwargs, err, first,
                   engineCalls, engineRaised, engineArg, logged, persisted, file>>

\* run: args.sequential = sequential
RunSetSequential ==
    /\ cmd = "run"
    /\ pc = "loaded"
    /\ args' = [args EXCEPT !.sequential = opts.sequential.b]
    /\ pc' = "sequential_set"
    /\ UNCHANGED <<convVars, gateVars, cmd, opts, pending, kwargs, err, first,
                   engineCalls, engineRaised, engineArg, printed, logged, exitCode,
                   persisted, file, loaded>>

\* run writing run_all over args.sequential
RunSetRunAll_IntoSequential ==
    /\ cmd = "run"
    /\ pc = "sequential_set"
    /\ args' = [args EXCEPT !.sequential = opts.run_all.b]
    /\ pc' = "patched"
    /\ UNCHANGED <<convVars, gateVars, cmd, opts, pending, kwargs, err, first,
                   engineCalls, engineRaised, engineArg, printed, logged, exitCode,
                   persisted, file, loaded>>

\* run: args.metadata['run_all'] = run_all
RunSetRunAll ==
    /\ cmd = "run"
    /\ pc = "sequential_set"
    /\ args' = [args EXCEPT !.metadata.run_all = opts.run_all.b]
    /\ pc' = "patched"
    /\ UNCHANGED <<convVars, gateVars, cmd, opts, pending, kwargs, err, first,
                   engineCalls, engineRaised, engineArg, printed, logged, exitCode,
                   persisted, file, loaded>>

\* run: result = autotuner_runner.run(args), and the except clause
RunEngine ==
    /\ cmd = "run"
    /\ pc = "patched"
    /\ engineArg' = args
    /\ engineCalls' = engineCalls + 1
    /\ \E raised \in BOOLEAN :
          /\ engineRaised' = raised
          /\ IF raised
             THEN /\ printed' = "error"
                  /\ exitCode' = 1
                  /\ pc' = "exit"
             ELSE /\ exitCode' = 0
                  /\ pc' = "done"
                  /\ UNCHANGED printed
    /\ UNCHANGED <<convVars, gateVars, cmd, opts, pending, kwargs, err, first,
                   logged, persisted, file, loaded, args>>

\* results(config_dir, model, path, log_prefix, top_n, ...)
Results ==
    /\ BodyStarts("results")
    /\ IF file = Missing
       THEN /\ printed' = "error"
            /\ logged' = TRUE
            /\ exitCode' = 1
            /\ pc' = "exit"
            /\ UNCHANGED <<loaded, args, engineArg, engineCalls, engineRaised>>
       ELSE /\ loaded' = file
            /\ args' = file
            /\ engineArg' = file
            /\ engineCalls' = engineCalls + 1
            /\ \E raised \in BOOLEAN :
                  /\ engineRaised' = raised
                  /\ IF raised
                     THEN /\ printed' = "error"
                          /\ logged' = TRUE
                          /\ exitCode' = 1
                          /\ pc' = "exit"
                     ELSE /\ printed' = "completed"
                          /\ exitCode' = 0
                          /\ pc' = "done"
                          /\ UNCHANGED logged
    /\ UNCHANGED <<convVars, gateVars, cmd, opts, pending, kwargs, err, first,
                   persisted, file>>

\* the body shared by list_configs and list_models: one engine call, and an
\* except clause that prints and exits
ListBody ==
    /\ engineCalls' = engineCalls + 1
    /\ \E raised \in BOOLEAN :
          /\ engineRaised' = raised
          /\ IF raised
             THEN /\ printed' = "error"
                  /\ exitCode' = 1
                  /\ pc' = "exit"
             ELSE /\ exitCode' = 0
                  /\ pc' = "done"
                  /\ UNCHANGED printed
    /\ UNCHANGED <<convVars, gateVars, cmd, opts, pending, kwargs, err, first,
                   engineArg, logged, persisted, file, loaded, args>>

\* list_configs(config_dir, model)
ListConfigs == BodyStarts("list_configs") /\ ListBody

\* list_models()
ListModels == BodyStarts("list_models") /\ ListBody

Next ==
    \/ ProcessModel
    \/ ProcessPositiveInt
    \/ ProcessPositiveFloat
    \/ ProcessIntList
    \/ ProcessIntListOrAuto
    \/ ProcessLinked
    \/ Generate
    \/ RunLoad
    \/ RunSetSequential
    \/ RunSetRunAll
    \/ RunEngine
    \/ Results
    \/ ListConfigs
    \/ ListModels

Spec == Init /\ [][Next]_vars

----------------------------------------------------------------------------
(* Properties of the cross-field gate *)

BothLinkedRegistered == DOMAIN Accumulated(ctx) = LinkedNames

RequirementError == Fail("RequirementError")

\* C1: in a generate invocation in which both linked options have been
\* registered, the gate call raised RequirementError if and only if both
\* registered values are falsy; with at least one present it raised no
\* RequirementError.
C1_GateVerdict ==
    (cmd = "generate" /\ BothLinkedRegistered) =>
        /\ ctx.params = [n \in LinkedNames |-> opts[n]]
        /\ (result = RequirementError) <=>
              (~Truthy(opts.resource_shape) /\ ~Truthy(opts.memory_per_gpu))
        /\ (err = "RequirementError") <=> (result = RequirementError)

\* only memory_per_gpu=80.0 given, shape absent: both registered, the gate passed
C1_Witness ==
    /\ cmd = "generate"
    /\ BothLinkedRegistered
    /\ opts.resource_shape = NoneVal
    /\ opts.memory_per_gpu = FloatV(80)
    /\ result.tag # "fail"

OtherLinked(name) == IF name = "resource_shape" THEN "memory_per_gpu" ELSE "resource_shape"

\* the verdict of running the two linked callbacks on a fresh context, n1 first
TwoFieldVerdict(n1, n2, o) ==
    LET r1 == ValidateResourceShapeOrMemory(FreshCtx, n1, o[n1])
        r2 == ValidateResourceShapeOrMemory(r1.ctx, n2, o[n2])
    IN  IF r1.result.tag = "fail" THEN r1.result.kind
        ELSE IF r2.result.tag = "fail" THEN r2.result.kind
        ELSE "pass"

\* the verdict the invocation has reached on the two linked options
LinkedVerdict ==
    IF result.tag = "fail" THEN result.kind
    ELSE IF BothLinkedRegistered THEN "pass"
    ELSE "pending"

\* C2: whichever linked option the invocation validated first, its verdict
\* on the pair (pass, RequirementError or FormatError) is the verdict the
\* opposite order gives on the same two raw values.
C2_OrderInsensitive ==
    (cmd = "generate" /\ LinkedVerdict # "pending") =>
        /\ LinkedVerdict \in {"pass", "RequirementError", "FormatError"}
        /\ LinkedVerdict = TwoFieldVerdict(OtherLinked(first), first, opts)
        /\ TwoFieldVerdict("resource_shape", "memory_per_gpu", opts)
              = TwoFieldVerdict("memory_per_gpu", "resource_shape", opts)

\* budget validated first, then a malformed shape: FormatError, as in the other order
C2_Witness ==
    /\ cmd = "generate"
    /\ first = "memory_per_gpu"
    /\ BothLinkedRegistered
    /\ result = Fail("FormatError")

\* C3: the completeness check is evaluated by a registration if and only if
\* that registration is the one that brings the accumulator from one to two
\* distinct field names: not by the first, and by no later one.
C3_FiresOnce ==
    regs >= 1 =>
        (checked <=> (distinctAt = 1 /\ Cardinality(DOMAIN Accumulated(ctx)) = 2))

----------------------------------------------------------------------------
(* Properties of the commands *)

ValidationFailed == err # "none"

\* C4: in a generate invocation the engine is called only when every option
\* callback and type conversion has returned without error, so that no
\* rejected value reaches it; after a validation error the engine has not
\* been called and nothing is persisted.
C4_FailFast ==
    cmd = "generate" =>
        /\ engineCalls > 0 =>
              /\ pending = {}
              /\ ~ValidationFailed
              /\ DOMAIN kwargs = ParamsOf("generate")
              /\ \A n \in DOMAIN kwargs : kwargs[n].tag # "fail"
              /\ engineArg.kwargs = kwargs
              /\ opts.nodes.n > 0
              /\ Strip(opts.model.s) # <<>>
              /\ Truthy(opts.resource_shape) \/ Truthy(opts.memory_per_gpu)
              /\ kwargs["tensor_parallel_sizes"].tag = "list"
              /\ \A i \in 1..Len(kwargs["tensor_parallel_sizes"].l) :
                    kwargs["tensor_parallel_sizes"].l[i] > 0
        /\ ValidationFailed =>
              /\ engineCalls = 0
              /\ ~persisted
              /\ pc = "exit"
              /\ exitCode # 0

\* every validator passed and the engine's generate ran
C4_Witness == cmd = "generate" /\ engineCalls = 1 /\ persisted /\ ~ValidationFailed

\* C5: whenever the engine call of a command raises, the command prints the
\* error, writes it to the log, exits with non-zero status and has called
\* the engine once only.
C5_EngineFailureHandled ==
    engineRaised =>
        /\ printed = "error"
        /\ logged
        /\ exitCode > 0
        /\ engineCalls = 1

\* C10: run calls the engine at most once, only after loading the record and
\* setting both flags; the record the engine receives is the loaded one with
\* sequential and metadata['run_all'] set from the command line and every
\* other field as loaded; when the load fails the engine is not called.
C10_RunFrame ==
    cmd = "run" =>
        /\ engineCalls <= 1
        /\ pc \in {"params", "loaded", "sequential_set", "patched"} => engineCalls = 0
        /\ file = Missing => engineCalls = 0
        /\ engineCalls = 1 =>
              /\ loaded = file
              /\ engineArg.sequential = opts.sequential.b
              /\ engineArg.metadata.run_all = opts.run_all.b
              /\ engineArg.model = loaded.model
              /\ engineArg.nodes = loaded.nodes
              /\ engineArg.metadata.base_config_matches = loaded.metadata.base_config_matches
              /\ DOMAIN engineArg = DOMAIN loaded
              /\ DOMAIN engineArg.metadata = DOMAIN loaded.metadata

\* the engine ran on a record whose two flags were both changed by the patch
C10_Witness ==
    /\ cmd = "run"
    /\ engineCalls = 1
    /\ loaded.sequential # opts.sequential.b
    /\ loaded.metadata.run_all # opts.run_all.b
    /\ loaded.metadata.base_config_matches = 3

----------------------------------------------------------------------------
(* Properties of the click types *)

\* an accepted result is unset, the sentinel, or a list of positive integers
WellFormedParsed(r, c) ==
    \/ r.tag = "none"
    \/ r.tag = "auto" /\ c = "int_list_or_auto"
    \/ r.tag = "list" /\ \A i \in 1..Len(r.l) : r.l[i] > 0

\* C6: every value either click type returns is unset or empty, the Auto
\* sentinel (auto-or-list type only), or a list whose entries are all
\* integers > 0.
C6_ParsedListValue ==
    (conv \in {"int_list", "int_list_or_auto"} /\ out.tag # "fail") =>
        WellFormedParsed(out, conv)

\* the trimmed, non-empty segments of a string, in order
NonEmptySegment(x) == x # <<>>
Segments(s) ==
    LET parts == Split(Strip(s))
    IN  SelectSeq([i \in 1..Len(parts) |-> Strip(parts[i])], NonEmptySegment)

IsInteger(x) == ParseInt(x).ok
IsPositiveInteger(x) == ParseInt(x).ok /\ ParseInt(x).n > 0
IsAuto(x) == Lower(x) = AutoWord

\* index of the first segment that is not a positive integer, 0 if none
FirstOffender(segs) ==
    IF \A i \in 1..Len(segs) : IsPositiveInteger(segs[i]) THEN 0
    ELSE CHOOSE k \in 1..Len(segs) :
            /\ ~IsPositiveInteger(segs[k])
            /\ \A j \in 1..(k - 1) : IsPositiveInteger(segs[j])

\* C7: on a string the list type returns the positive integers of the
\* trimmed non-empty comma segments, in order, when all of them are positive
\* integers; otherwise it fails, with ParseError when the (first) offending
\* segment is not an integer and RangeError when it is an integer <= 0.
C7_ListParser ==
    (conv = "int_list" /\ raw.tag = "str") =>
        LET segs == Segments(raw.s)
            k == FirstOffender(segs)
        IN  IF k = 0
            THEN out = ListV([i \in 1..Len(segs) |-> ParseInt(segs[i]).n])
            ELSE /\ out.tag = "fail"
                 /\ out.kind \in {"ParseError", "RangeError"}
                 /\ (out.kind = "ParseError") <=> ~IsInteger(segs[k])
                 /\ (out.kind = "RangeError") <=> (IsInteger(segs[k]) /\ ParseInt(segs[k]).n <= 0)

\* "2,4,8" gives [2,4,8]
C7_Witness ==
    /\ conv = "int_list"
    /\ raw = Str(<<"2", ",", "4", ",", "8">>)
    /\ out = ListV(<<2, 4, 8>>)

HasAutoSegment(s) == \E i \in 1..Len(Segments(s)) : IsAuto(Segments(s)[i])
HasNumericSegment(s) == \E i \in 1..Len(Segments(s)) : IsInteger(Segments(s)[i])
IsCommaList(s) == HasComma(Strip(s))

\* C8 as stated: Auto exactly for a whole value "auto", and MixedSentinelError
\* for every comma list holding "auto" and a numeric token, in any position.
C8_MixedAnywhere ==
    (conv = "int_list_or_auto" /\ raw.tag = "str") =>
        /\ (out.tag = "auto") <=> IsAuto(Strip(raw.s))
        /\ (IsCommaList(raw.s) /\ HasAutoSegment(raw.s) /\ HasNumericSegment(raw.s)) =>
              out = Fail("MixedSentinelError")

FirstAuto(segs) == CHOOSE k \in 1..Len(segs) : IsAuto(segs[k]) /\ \A j \in 1..(k - 1) : ~IsAuto(segs[j])

\* C8 amended: Auto exactly for a whole value "auto"; every comma list that
\* holds "auto" fails, with MixedSentinelError exactly when every segment
\* before the first "auto" is a positive integer (so always when "auto" is
\* mixed with positive integers only, in any position), and otherwise with
\* the ParseError or RangeError of the earlier offending segment.
C8_MixedSentinel ==
    (conv = "int_list_or_auto" /\ raw.tag = "str") =>
        /\ (out.tag = "auto") <=> IsAuto(Strip(raw.s))
        /\ (IsCommaList(raw.s) /\ HasAutoSegment(raw.s)) =>
              LET segs == Segments(raw.s)
                  a == FirstAuto(segs)
              IN  /\ out.tag = "fail"
                  /\ (out = Fail("MixedSentinelError")) <=>
                        (\A j \in 1..(a - 1) : IsPositiveInteger(segs[j]))
                  /\ (out # Fail("MixedSentinelError")) =>
                        out.kind \in {"ParseError", "RangeError"}

\* "auto,2" fails with MixedSentinelError
C8_Witness ==
    /\ conv = "int_list_or_auto"
    /\ raw = Str(<<"a", "u", "t", "o", ",", "2">>)
    /\ out = Fail("MixedSentinelError")

----------------------------------------------------------------------------
(* Properties of the resource shape matcher *)

\* the whole descriptor, not a prefix of it, has the shape of grammar k
HasShape(k, s) == PatternEnd(k, s) = Len(s) + 1

\* C9: a non-empty descriptor is accepted if and only if it has one of the
\* five shapes, the first matching grammar winning; every other non-empty
\* descriptor fails with FormatError.
C9_AcceptsExactlyShapes ==
    (conv = "resource_shape" /\ raw.tag = "str" /\ raw.s # <<>>) =>
        /\ (out = raw) <=> (\E k \in 1..5 : HasShape(k, raw.s))
        /\ (~\E k \in 1..5 : HasShape(k, raw.s)) => out = Fail("FormatError")
        /\ raw.s = <<"g", "p", "u", ".", "8", "x", "h", "2", "0", "0">> => FirstMatch(raw.s) = 1
        /\ raw.s = <<"g", "p", "u", ".", "a", "1", "0", ".", "6", "x", "l", "a", "r", "g", "e">> => FirstMatch(raw.s) = 2
        /\ raw.s = <<"g", "p", "u", ".", "a", "1", "0", "0", "-", "4", "0", "g", "b">> => FirstMatch(raw.s) = 3
        /\ raw.s = <<"8", "x", "h", "2", "0", "0">> => FirstMatch(raw.s) = 4
        /\ raw.s = <<"8">> => FirstMatch(raw.s) = 5

====
